---- MODULE Spec2Model ----
(***************************************************************************)
(* The two icon utilities of the repository as one state machine:          *)
(*   fix_icon.py    fix_icon_transparency(): flatten the alpha channel of  *)
(*                  the iOS app icon onto white, in place;                 *)
(*   resize_logo.py resize_logo(): write logo.png in the five Android      *)
(*                  launcher densities.                                    *)
(* A process runs one of the two scripts (prog) against a file system      *)
(* (fs: the files, dirs: the directories).  Pillow's Image.open is lazy:   *)
(* it identifies the file and keeps it open, the pixel data is read by the *)
(* first operation that needs it (load), which closes the file when it     *)
(* succeeds.                                                               *)
(***************************************************************************)
EXTENDS Integers, Sequences, FiniteSets, TLC

VARIABLES
    prog,        \* the script the process runs
    fs,          \* path -> file content
    dirs,        \* the directories that exist
    fs0,         \* fs when the current invocation began
    dirs0,       \* dirs when the current invocation began
    fx_pc,       \* fix_icon_transparency: position
    fx_img,      \* fix_icon_transparency: the local img
    fx_fp,       \* the file handle Image.open took for the icon
    fx_out,      \* fix_icon.py: lines printed
    fx_exc,      \* the exception fix_icon_transparency raised
    rl_pc,       \* resize_logo: position
    rl_img,      \* resize_logo: the local img
    rl_fp,       \* the file handle Image.open took for logo.png
    rl_out,      \* resize_logo.py: lines printed
    rl_exc,      \* the exception caught as e
    rl_ret,      \* resize_logo's return value
    rl_i,        \* index into densities of the target in hand
    rl_resized,  \* the local resized
    rl_made,     \* folders os.makedirs was run for in this invocation
    rl_written,  \* folders whose icon this invocation saved
    rl_run,      \* number of the invocation
    rl_prev      \* result and file system at the end of the previous invocation

fsVars == <<fs, dirs, fs0, dirs0>>
fxVars == <<fx_pc, fx_img, fx_fp, fx_out, fx_exc>>
rlVars == <<rl_pc, rl_img, rl_fp, rl_out, rl_exc, rl_ret, rl_i, rl_resized,
            rl_made, rl_written, rl_run, rl_prev>>
vars == <<prog, fsVars, fxVars, rlVars>>

----------------------------------------------------------------------------
(* Bounds *)

\* an icon has at most this many pixels
MaxPixels == 2
\* resize_logo is invoked at most this many times in a row
MaxRuns == 2

----------------------------------------------------------------------------
(* Paths and the file system *)

icon_path == <<"ios", "Runner", "Assets.xcassets", "AppIcon.appiconset",
               "Icon-App-1024x1024@1x.png">>

logo_path == <<"logo.png">>

densitiesLargestFirst == << <<"mipmap-xxxhdpi", 192>>,
                           <<"mipmap-xxhdpi", 144>>,
                           <<"mipmap-xhdpi", 96>>,
                           <<"mipmap-hdpi", 72>>,
                           <<"mipmap-mdpi", 48>> >>

densities == << <<"mipmap-mdpi", 48>>,
                <<"mipmap-hdpi", 72>>,
                <<"mipmap-xhdpi", 96>>,
                <<"mipmap-xxhdpi", 144>>,
                <<"mipmap-xxxhdpi", 192>> >>

folder_path(folder) == <<"android", "app", "src", "main", "res", folder>>

output_path(folder) == folder_path(folder) \o <<"ic_launcher.png">>

Folders == {densities[k][1] : k \in 1..Len(densities)}

Paths == {icon_path, logo_path} \cup {output_path(f) : f \in Folders}

Absent == [kind |-> "absent"]

\* a file that is no image: Image.open cannot identify it
Junk == [kind |-> "junk"]

\* os.path.exists
Exists(files, path) == files[path].kind # "absent"

----------------------------------------------------------------------------
(* Images.  A raster holds its pixels row by row; a pixel is a tuple of    *)
(* bands, (r,g,b,a), (l,a), (r,g,b) or (l).                                *)

White == <<255, 255, 255>>

AlphaModes == {"RGBA", "LA"}

\* PNG decoding result of Image.open: mode and size from the header, the
\* pixel data still in the file
ImageOpen(files, path) ==
    LET f == files[path] IN
    IF f.kind = "absent"
    THEN [err |-> "FileNotFoundError", fp |-> "none", img |-> f]
    ELSE IF f.kind = "junk"
    THEN [err |-> "UnidentifiedImageError", fp |-> "closed", img |-> f]
    ELSE [err |-> "none", fp |-> "open",
          img |-> [mode |-> f.mode, size |-> f.size, px |-> <<>>, loaded |-> FALSE]]

\* Image.load, run by the first operation that reads pixels: reads the data
\* from the open file and closes it; truncated data raises, the file stays open
Load(img, f, fp) ==
    IF img.loaded THEN [err |-> "none", fp |-> fp, img |-> img]
    ELSE IF f.kind = "png" /\ f.intact
    THEN [err |-> "none", fp |-> "closed",
          img |-> [img EXCEPT !.px = f.px, !.loaded = TRUE]]
    ELSE [err |-> "OSError_truncated", fp |-> fp, img |-> img]

\* Image.new(mode, size, color)
ImageNew(mode, size, color) ==
    [mode |-> mode, size |-> size,
     px |-> [k \in 1..(size[1] * size[2]) |-> color], loaded |-> TRUE]

\* the four bytes Pillow stores for a pixel of each mode
Storage(mode, p) ==
    CASE mode = "RGBA" -> p
      [] mode = "LA"   -> <<p[1], p[1], p[1], p[2]>>
      [] mode = "RGB"  -> <<p[1], p[2], p[3], 255>>
      [] mode = "L"    -> <<p[1], p[1], p[1], 255>>

\* img.split(): one L image per band
Split(img) ==
    [b \in 1..Len(img.px[1]) |->
        [mode |-> "L", size |-> img.size,
         px |-> [k \in 1..Len(img.px) |-> <<img.px[k][b]>>], loaded |-> TRUE]]

\* Paste.c BLEND: in1 * (255 - mask) + in2 * mask, divided by 255 with rounding
Blend(mask, in1, in2) ==
    LET tmp == in1 * (255 - mask) + in2 * mask + 128
    IN  ((tmp \div 256) + tmp) \div 256

\* background.paste(img, mask=mask) onto an RGB image: the stored bytes of
\* img blended over the background by the mask
PasteMask(background, img, mask) ==
    [background EXCEPT !.px =
        [k \in 1..Len(background.px) |->
            LET s == Storage(img.mode, img.px[k])
                m == mask.px[k][1]
                d == background.px[k]
            IN  <<Blend(m, d[1], s[1]), Blend(m, d[2], s[2]), Blend(m, d[3], s[3])>>]]

\* background.paste(img) onto an RGB image: the stored bytes of img copied
Paste(background, img) ==
    [background EXCEPT !.px =
        [k \in 1..Len(background.px) |->
            LET s == Storage(img.mode, img.px[k])
            IN  <<s[1], s[2], s[3]>>]]

ConvertKeepsMode(img) == img

\* img.convert('RGB')
ConvertRGB(img) ==
    [img EXCEPT !.mode = "RGB",
                !.px = [k \in 1..Len(img.px) |->
                           LET s == Storage(img.mode, img.px[k])
                           IN  <<s[1], s[2], s[3]>>]]

\* img.save(path, 'PNG'): the file a successful save leaves
EncodePNG(img) ==
    [kind |-> "png", intact |-> TRUE, mode |-> img.mode, size |-> img.size,
     px |-> img.px]

\* the elements of a sequence
Range(seq) == {seq[k] : k \in 1..Len(seq)}

----------------------------------------------------------------------------
(* Console lines *)

NotFoundMsg(path) == <<"Icon file not found", path>>
FixedMsg(path) == <<"Fixed transparency in", path>>

----------------------------------------------------------------------------
(* fix_icon.py *)

NoImage == [mode |-> "none", size |-> <<0, 0>>, px |-> <<>>, loaded |-> FALSE]

FixCatch(e) ==
    /\ fx_pc' = "done"
    /\ fx_exc' = e
    /\ fx_out' = Append(fx_out, <<"Error", e>>)

\* fix_icon_transparency has no try: an exception leaves the function
FixRaise(e) ==
    /\ fx_pc' = "raised"
    /\ fx_exc' = e
    /\ fx_out' = fx_out

FixCheckUnguarded ==
    /\ prog = "fix_icon"
    /\ fx_pc = "start"
    /\ fx_pc' = "open"
    /\ UNCHANGED <<prog, fsVars, rlVars, fx_img, fx_fp, fx_exc, fx_out>>

\* if os.path.exists(icon_path): ... else: print not found
FixCheck ==
    /\ prog = "fix_icon"
    /\ fx_pc = "start"
    /\ IF Exists(fs, icon_path)
       THEN fx_pc' = "open" /\ fx_out' = fx_out
       ELSE fx_pc' = "done" /\ fx_out' = Append(fx_out, NotFoundMsg(icon_path))
    /\ UNCHANGED <<prog, fsVars, rlVars, fx_img, fx_fp, fx_exc>>

\* img = Image.open(icon_path)
FixOpen ==
    /\ prog = "fix_icon"
    /\ fx_pc = "open"
    /\ \/ \* the operating system refuses the open
          /\ FixRaise("PermissionError")
          /\ UNCHANGED <<fx_img, fx_fp>>
       \/ LET r == ImageOpen(fs, icon_path) IN
          IF r.err # "none"
          THEN FixRaise(r.err) /\ fx_fp' = r.fp /\ fx_img' = fx_img
          ELSE /\ fx_img' = r.img
               /\ fx_fp' = r.fp
               /\ fx_pc' = "transform"
               /\ UNCHANGED <<fx_out, fx_exc>>
    /\ UNCHANGED <<prog, fsVars, rlVars>>

\* if img.mode in ('RGBA', 'LA'): ... elif img.mode != 'RGB': ...
FixTransform ==
    /\ prog = "fix_icon"
    /\ fx_pc = "transform"
    /\ \/ \* Image.new runs out of memory
          /\ fx_img.mode \in AlphaModes
          /\ FixRaise("MemoryError")
          /\ UNCHANGED <<fx_img, fx_fp>>
       \/ IF fx_img.mode \in AlphaModes
          THEN LET background == ImageNew("RGB", fx_img.size, White)
                   r == Load(fx_img, fs[icon_path], fx_fp)
               IN  IF r.err # "none"
                   THEN FixRaise(r.err) /\ fx_fp' = r.fp /\ fx_img' = fx_img
                   ELSE /\ fx_img' = IF fx_img.mode = "RGBA"
                                     THEN PasteMask(background, r.img,
                                                    Split(r.img)[Len(Split(r.img))])
                                     ELSE Paste(background, r.img)
                        /\ fx_fp' = r.fp
                        /\ fx_pc' = "save"
                        /\ UNCHANGED <<fx_out, fx_exc>>
          ELSE IF fx_img.mode # "RGB"
          THEN LET r == Load(fx_img, fs[icon_path], fx_fp)
               IN  IF r.err # "none"
                   THEN FixRaise(r.err) /\ fx_fp' = r.fp /\ fx_img' = fx_img
                   ELSE /\ fx_img' = ConvertRGB(r.img)
                        /\ fx_fp' = r.fp
                        /\ fx_pc' = "save"
                        /\ UNCHANGED <<fx_out, fx_exc>>
          ELSE /\ fx_pc' = "save"
               /\ UNCHANGED <<fx_img, fx_fp, fx_out, fx_exc>>
    /\ UNCHANGED <<prog, fsVars, rlVars>>

\* img.save(icon_path, 'PNG'): loads the image if it is not yet, then
\* opens the path for writing and encodes
FixSave ==
    /\ prog = "fix_icon"
    /\ fx_pc = "save"
    /\ LET r == Load(fx_img, fs[icon_path], fx_fp) IN
       IF r.err # "none"
       THEN /\ FixRaise(r.err)
            /\ fx_fp' = r.fp
            /\ UNCHANGED <<fx_img, fs>>
       ELSE \/ /\ fs' = [fs EXCEPT ![icon_path] = EncodePNG(r.img)]
               /\ fx_img' = r.img
               /\ fx_fp' = r.fp
               /\ fx_pc' = "print"
               /\ UNCHANGED <<fx_out, fx_exc>>
            \/ \* the write fails: before the file is opened for writing, or
               \* after it was truncated
               \E left \in {fs[icon_path], Junk} :
                  /\ fs' = [fs EXCEPT ![icon_path] = left]
                  /\ FixRaise("OSError")
                  /\ fx_img' = r.img
                  /\ fx_fp' = r.fp
    /\ UNCHANGED <<prog, dirs, fs0, dirs0, rlVars>>

\* print(f"Fixed transparency in {icon_path}")
FixPrint ==
    /\ prog = "fix_icon"
    /\ fx_pc = "print"
    /\ fx_out' = Append(fx_out, FixedMsg(icon_path))
    /\ fx_pc' = "done"
    /\ UNCHANGED <<prog, fsVars, rlVars, fx_img, fx_fp, fx_exc>>

----------------------------------------------------------------------------
(* resize_logo.py *)

BannerMsg == <<"Resizing Jumpz logo for Android app icons...">>
LogoNotFoundMsg == <<"logo.png not found in current directory">>
SizeMsg(size) == <<"Original logo size", size>>
CreatedMsg(folder, size) == <<"Created icon", folder, size, size>>
ErrorMsg(e) == <<"Error resizing logo", e>>
CompleteMsgs == << <<"Logo resizing complete!">>,
                   <<"All Android app icons have been created in the correct folders.">>,
                   <<"Your app will now display the custom Jumpz logo!">> >>

\* the directories os.makedirs(path) makes sure of: path and its parents
Prefixes(path) == {SubSeq(path, 1, n) : n \in 1..Len(path)}

MakedirsNoExistOk(ds, path) ==
    IF path \in ds
    THEN [err |-> "FileExistsError", dirs |-> ds]
    ELSE [err |-> "none", dirs |-> ds \cup Prefixes(path)]

\* os.makedirs(path, exist_ok=True)
Makedirs(ds, path) == [err |-> "none", dirs |-> ds \cup Prefixes(path)]

ResizeKeepAspect(img, size) ==
    [img EXCEPT !.size = <<size[1], (size[1] * img.size[2]) \div img.size[1]>>]

\* img.resize(size, Image.Resampling.LANCZOS) of a solid image: the filter's
\* weights are normalised, every output pixel is the one colour
Resize(img, size) == [img EXCEPT !.size = size]

\* leaving the with block closes the image's file
WithExit(fp) == IF fp = "open" THEN "closed" ELSE fp

HandleErrorAndContinue(e, fp) ==
    /\ rl_exc' = e
    /\ rl_out' = Append(rl_out, ErrorMsg(e))
    /\ IF rl_i = 0
       THEN rl_ret' = "False" /\ rl_pc' = "done" /\ rl_i' = rl_i /\ rl_fp' = fp
       ELSE /\ rl_ret' = rl_ret
            /\ rl_fp' = fp
            /\ IF rl_i = Len(densities)
               THEN rl_pc' = "finish" /\ rl_i' = rl_i
               ELSE rl_pc' = "makedirs" /\ rl_i' = rl_i + 1

\* except Exception as e: print, return False (the with block is left first)
HandleError(e, fp) ==
    /\ rl_exc' = e
    /\ rl_out' = Append(rl_out, ErrorMsg(e))
    /\ rl_ret' = "False"
    /\ rl_pc' = "done"
    /\ rl_i' = rl_i
    /\ rl_fp' = WithExit(fp)

ResizeCheckDirsFirst ==
    /\ prog = "resize_logo"
    /\ rl_pc = "start"
    /\ dirs' = dirs \cup Prefixes(folder_path(densities[1][1]))
    /\ IF ~Exists(fs, logo_path)
       THEN /\ rl_out' = rl_out \o <<BannerMsg, LogoNotFoundMsg>>
            /\ rl_ret' = "False"
            /\ rl_pc' = "done"
       ELSE /\ rl_out' = Append(rl_out, BannerMsg)
            /\ rl_pc' = "open"
            /\ rl_ret' = rl_ret
    /\ UNCHANGED <<prog, fs, fs0, dirs0, fxVars, rl_img, rl_fp, rl_exc, rl_i,
                   rl_resized, rl_made, rl_written, rl_run, rl_prev>>

\* print banner; if not os.path.exists('logo.png'): print, return False
ResizeCheck ==
    /\ prog = "resize_logo"
    /\ rl_pc = "start"
    /\ IF ~Exists(fs, logo_path)
       THEN /\ rl_out' = rl_out \o <<BannerMsg, LogoNotFoundMsg>>
            /\ rl_ret' = "False"
            /\ rl_pc' = "done"
       ELSE /\ rl_out' = Append(rl_out, BannerMsg)
            /\ rl_pc' = "open"
            /\ rl_ret' = rl_ret
    /\ UNCHANGED <<prog, fsVars, fxVars, rl_img, rl_fp, rl_exc, rl_i,
                   rl_resized, rl_made, rl_written, rl_run, rl_prev>>

\* with Image.open('logo.png') as img: print original size
ResizeOpen ==
    /\ prog = "resize_logo"
    /\ rl_pc = "open"
    /\ \/ \* the operating system refuses the open
          /\ HandleError("PermissionError", rl_fp)
          /\ UNCHANGED rl_img
       \/ LET r == ImageOpen(fs, logo_path) IN
          IF r.err # "none"
          THEN /\ HandleError(r.err, r.fp)
               /\ UNCHANGED rl_img
          ELSE /\ rl_img' = r.img
               /\ rl_fp' = r.fp
               /\ rl_out' = Append(rl_out, SizeMsg(r.img.size))
               /\ rl_i' = 1
               /\ rl_pc' = "makedirs"
               /\ UNCHANGED <<rl_exc, rl_ret>>
    /\ UNCHANGED <<prog, fsVars, fxVars, rl_resized, rl_made, rl_written,
                   rl_run, rl_prev>>

\* folder_path = ...; os.makedirs(folder_path, exist_ok=True)
ResizeMakedirs ==
    /\ prog = "resize_logo"
    /\ rl_pc = "makedirs"
    /\ LET folder == densities[rl_i][1]
           r == Makedirs(dirs, folder_path(folder))
       IN  \/ \* the operating system refuses a mkdir: at the first missing
              \* directory, or at the folder after its parents were made
              /\ folder_path(folder) \notin dirs
              /\ \E made \in {dirs, dirs \cup Prefixes(SubSeq(folder_path(folder), 1, 5))} :
                    dirs' = made
              /\ HandleError("OSError", rl_fp)
              /\ UNCHANGED rl_made
           \/ IF r.err # "none"
              THEN /\ HandleError(r.err, rl_fp)
                   /\ UNCHANGED <<dirs, rl_made>>
              ELSE /\ dirs' = r.dirs
                   /\ rl_made' = Append(rl_made, folder)
                   /\ rl_pc' = "resize"
                   /\ UNCHANGED <<rl_exc, rl_out, rl_ret, rl_i, rl_fp>>
    /\ UNCHANGED <<prog, fs, fs0, dirs0, fxVars, rl_img, rl_resized, rl_written,
                   rl_run, rl_prev>>

\* resized = img.resize((size, size), Image.Resampling.LANCZOS): the first
\* resize loads the pixel data
ResizeResize ==
    /\ prog = "resize_logo"
    /\ rl_pc = "resize"
    /\ LET size == densities[rl_i][2]
           r == Load(rl_img, fs[logo_path], rl_fp)
       IN  \/ \* no memory for the copy
              /\ HandleError("MemoryError", rl_fp)
              /\ UNCHANGED <<rl_img, rl_resized>>
           \/ IF r.err # "none"
              THEN /\ HandleError(r.err, r.fp)
                   /\ UNCHANGED <<rl_img, rl_resized>>
              ELSE /\ rl_img' = r.img
                   /\ rl_fp' = r.fp
                   /\ rl_resized' = Resize(r.img, <<size, size>>)
                   /\ rl_pc' = "save"
                   /\ UNCHANGED <<rl_exc, rl_out, rl_ret, rl_i>>
    /\ UNCHANGED <<prog, fsVars, fxVars, rl_made, rl_written, rl_run, rl_prev>>

\* output_path = ...; resized.save(output_path, 'PNG'); print created
ResizeSave ==
    /\ prog = "resize_logo"
    /\ rl_pc = "save"
    /\ LET folder == densities[rl_i][1]
           size == densities[rl_i][2]
           path == output_path(folder)
       IN  \/ \* the write fails: before the file is opened for writing, or
              \* after it was truncated
              /\ \E left \in {fs[path], Junk} : fs' = [fs EXCEPT ![path] = left]
              /\ HandleError("OSError", rl_fp)
              /\ UNCHANGED rl_written
           \/ /\ fs' = [fs EXCEPT ![path] = EncodePNG(rl_resized)]
              /\ rl_out' = Append(rl_out, CreatedMsg(folder, size))
              /\ rl_written' = Append(rl_written, folder)
              /\ IF rl_i = Len(densities)
                 THEN rl_pc' = "finish" /\ rl_i' = rl_i
                 ELSE rl_pc' = "makedirs" /\ rl_i' = rl_i + 1
              /\ UNCHANGED <<rl_exc, rl_ret, rl_fp>>
    /\ UNCHANGED <<prog, dirs, fs0, dirs0, fxVars, rl_img, rl_resized, rl_made,
                   rl_run, rl_prev>>

\* the three closing prints; return True
ResizeFinish ==
    /\ prog = "resize_logo"
    /\ rl_pc = "finish"
    /\ rl_out' = rl_out \o CompleteMsgs
    /\ rl_ret' = "True"
    /\ rl_fp' = WithExit(rl_fp)
    /\ rl_pc' = "done"
    /\ UNCHANGED <<prog, fsVars, fxVars, rl_img, rl_exc, rl_i, rl_resized,
                   rl_made, rl_written, rl_run, rl_prev>>

\* the script is run again: if __name__ == "__main__": resize_logo()
ResizeInvoke ==
    /\ prog = "resize_logo"
    /\ rl_pc = "done"
    /\ rl_run < MaxRuns
    /\ rl_run' = rl_run + 1
    /\ rl_prev' = [ret |-> rl_ret, fs |-> fs, dirs |-> dirs]
    /\ fs0' = fs
    /\ dirs0' = dirs
    /\ rl_pc' = "start"
    /\ rl_img' = NoImage
    /\ rl_fp' = "none"
    /\ rl_out' = <<>>
    /\ rl_exc' = "none"
    /\ rl_ret' = "None"
    /\ rl_i' = 0
    /\ rl_resized' = NoImage
    /\ rl_made' = <<>>
    /\ rl_written' = <<>>
    /\ UNCHANGED <<prog, fs, dirs, fxVars>>

----------------------------------------------------------------------------
(* The initial file systems *)

Sizes == {<<w, h>> : w \in 1..MaxPixels, h \in 1..MaxPixels}

Colours == {<<0, 0, 0>>, <<255, 0, 0>>, White}
Greys == {0, 200}
Alphas == {0, 128, 255}

PixelsOf(mode) ==
    CASE mode = "RGBA" -> {<<c[1], c[2], c[3], a>> : c \in Colours, a \in Alphas}
      [] mode = "LA"   -> {<<l, a>> : l \in Greys, a \in Alphas}
      [] mode = "RGB"  -> Colours
      [] mode = "L"    -> {<<l>> : l \in Greys}

Modes == {"RGBA", "LA", "RGB", "L"}

\* the icon files: whole PNGs of at most MaxPixels pixels, PNGs whose pixel
\* data is cut short, a file that is no image, no file
IconFiles ==
    LET shapes == {s \in Sizes : s[1] * s[2] <= MaxPixels} IN
    UNION {UNION {{[kind |-> "png", intact |-> TRUE, mode |-> m, size |-> s, px |-> px] :
                        px \in [1..(s[1] * s[2]) -> PixelsOf(m)]}
                  \cup {[kind |-> "png", intact |-> FALSE, mode |-> m, size |-> s, px |-> <<>>]} :
                  s \in shapes} : m \in Modes}
    \cup {Junk, Absent}

Solid(c) == [solid |-> c]

\* the logos: solid opaque images, square and not
LogoFiles ==
    {[kind |-> "png", intact |-> TRUE, mode |-> "RGB", size |-> <<1024, 1024>>,
      px |-> Solid(White)],
     [kind |-> "png", intact |-> TRUE, mode |-> "RGBA", size |-> <<200, 100>>,
      px |-> Solid(<<255, 0, 0, 255>>)],
     [kind |-> "png", intact |-> TRUE, mode |-> "L", size |-> <<30, 60>>,
      px |-> Solid(<<200>>)],
     [kind |-> "png", intact |-> FALSE, mode |-> "RGB", size |-> <<1024, 1024>>,
      px |-> <<>>],
     Junk, Absent}

\* an icon an earlier build left in a density folder
StaleIcon ==
    [kind |-> "png", intact |-> TRUE, mode |-> "RGBA", size |-> <<72, 72>>,
     px |-> Solid(<<0, 255, 0, 255>>)]

\* the density folders that exist at the start, each with a stale icon or empty
OutputPresets ==
    {[folders |-> fo, stale |-> st] :
        fo \in {{}, {"mipmap-mdpi", "mipmap-hdpi"}, Folders},
        st \in BOOLEAN}

Init ==
    /\ prog \in {"fix_icon", "resize_logo"}
    /\ \/ /\ prog = "fix_icon"
          /\ \E icon \in IconFiles :
                /\ fs = [p \in Paths |-> IF p = icon_path THEN icon ELSE Absent]
                /\ dirs = IF icon = Absent THEN {}
                          ELSE Prefixes(SubSeq(icon_path, 1, Len(icon_path) - 1))
       \/ /\ prog = "resize_logo"
          /\ \E logo \in LogoFiles, o \in OutputPresets :
                /\ o.folders = {} => ~o.stale
                /\ fs = [p \in Paths |->
                           IF p = logo_path THEN logo
                           ELSE IF o.stale /\ \E f \in o.folders : p = output_path(f)
                           THEN StaleIcon
                           ELSE Absent]
                /\ dirs = UNION {Prefixes(folder_path(f)) : f \in o.folders}
    /\ fs0 = fs
    /\ dirs0 = dirs
    /\ fx_pc = "start"
    /\ fx_img = NoImage
    /\ fx_fp = "none"
    /\ fx_out = <<>>
    /\ fx_exc = "none"
    /\ rl_pc = "start"
    /\ rl_img = NoImage
    /\ rl_fp = "none"
    /\ rl_out = <<>>
    /\ rl_exc = "none"
    /\ rl_ret = "None"
    /\ rl_i = 0
    /\ rl_resized = NoImage
    /\ rl_made = <<>>
    /\ rl_written = <<>>
    /\ rl_run = 1
    /\ rl_prev = [ret |-> "None", fs |-> fs, dirs |-> dirs]

Next ==
    \/ FixCheck
    \/ FixOpen
    \/ FixTransform
    \/ FixSave
    \/ FixPrint
    \/ ResizeCheck
    \/ ResizeOpen
    \/ ResizeMakedirs
    \/ ResizeResize
    \/ ResizeSave
    \/ ResizeFinish
    \/ ResizeInvoke

Spec == Init /\ [][Next]_vars

----------------------------------------------------------------------------
(* Properties of fix_icon.py *)

\* fix_icon_transparency wrote the icon back
IconSaved == prog = "fix_icon" /\ fx_pc \in {"print", "done"} /\ Exists(fs0, icon_path)

\* the colour of a pixel, its alpha left out, as an RGB triple
ColourOf(mode, p) == <<Storage(mode, p)[1], Storage(mode, p)[2], Storage(mode, p)[3]>>

\* the alpha of a pixel of an alpha mode: its last band
AlphaOf(p) == p[Len(p)]

\* what C1 says of the icon of alpha mode m: a transparent pixel comes out
\* white, an opaque one in its own colour
FlattenedOnWhite(m) ==
    (IconSaved /\ fs0[icon_path].mode = m) =>
        \A k \in 1..Len(fs0[icon_path].px) :
            LET p == fs0[icon_path].px[k]
                q == fs[icon_path].px[k]
            IN  /\ AlphaOf(p) = 0 => q = White
                /\ AlphaOf(p) = 255 => q = ColourOf(m, p)

\* C1: after the Alpha-Stripper saved an icon of mode RGBA or LA, every pixel
\* that was transparent is white and every pixel that was opaque has its
\* input colour.
C1_TransparentWhiteOpaqueKept == FlattenedOnWhite("RGBA") /\ FlattenedOnWhite("LA")

\* C2: whichever mode branch ran, the icon the Alpha-Stripper saved is an RGB
\* PNG of the input's width and height.
C2_SavedIconIsRGBSameSize ==
    IconSaved =>
        /\ fs[icon_path].kind = "png"
        /\ fs[icon_path].intact
        /\ fs[icon_path].mode = "RGB"
        /\ fs[icon_path].size = fs0[icon_path].size
        /\ Len(fs[icon_path].px) = fs0[icon_path].size[1] * fs0[icon_path].size[2]
        /\ \A k \in 1..Len(fs[icon_path].px) : Len(fs[icon_path].px[k]) = 3

C2_Witness ==
    /\ IconSaved
    /\ fx_pc = "done"
    /\ fs0[icon_path].mode = "LA"
    /\ fs0[icon_path].size = <<1, 2>>
    /\ fs[icon_path].mode = "RGB"

\* C5: with no icon file at the check, the Alpha-Stripper prints the
\* not-found line naming the path and returns; it raises nothing, opens no
\* file and leaves the files and directories as they were.
C5_MissingIconIsNoOp ==
    (prog = "fix_icon" /\ ~Exists(fs0, icon_path) /\ fx_pc # "start") =>
        /\ fx_pc = "done"
        /\ fx_exc = "none"
        /\ fx_out = <<NotFoundMsg(icon_path)>>
        /\ fx_fp = "none"
        /\ fs = fs0
        /\ dirs = dirs0

C5_Witness ==
    /\ prog = "fix_icon"
    /\ ~Exists(fs0, icon_path)
    /\ fx_pc = "done"
    /\ fx_out = <<NotFoundMsg(icon_path)>>

\* C7: an error of the Alpha-Stripper's decode, transform or write step
\* leaves fix_icon_transparency as an exception, with no success line
\* printed; the same error in the Logo-Resizer is caught and resize_logo
\* returns False.
C7_FixRaisesResizeReturnsFalse ==
    /\ fx_exc # "none" => (fx_pc = "raised" /\ FixedMsg(icon_path) \notin Range(fx_out))
    /\ fx_pc = "raised" => fx_exc # "none"
    /\ rl_exc # "none" => (rl_pc = "done" /\ rl_ret = "False")
    /\ rl_pc # "raised"

C7_Witness ==
    /\ prog = "fix_icon"
    /\ fx_pc = "raised"
    /\ fx_exc = "OSError"
    /\ fs[icon_path] = Junk

\* C10: once fix_icon_transparency or resize_logo has returned or raised, the
\* file handle it opened for its source image is closed.
C10_HandleReleasedOnExit ==
    /\ fx_pc \in {"done", "raised"} => fx_fp # "open"
    /\ rl_pc = "done" => rl_fp # "open"

----------------------------------------------------------------------------
(* Properties of resize_logo.py *)

\* the five targets as the specification lists them
DeclaredTargets == << <<"mipmap-mdpi", 48>>, <<"mipmap-hdpi", 72>>, <<"mipmap-xhdpi", 96>>,
                      <<"mipmap-xxhdpi", 144>>, <<"mipmap-xxxhdpi", 192>> >>

DeclaredFolder(k) == DeclaredTargets[k][1]
DeclaredSize(k) == DeclaredTargets[k][2]

DeclaredPath(k) == <<"android", "app", "src", "main", "res", DeclaredFolder(k), "ic_launcher.png">>

\* the first n declared folders, in order
DeclaredPrefix(n) == [k \in 1..n |-> DeclaredFolder(k)]

\* C3: a run of the Logo-Resizer that returns True has written exactly the
\* five icons, ic_launcher.png in mipmap-mdpi, -hdpi, -xhdpi, -xxhdpi and
\* -xxxhdpi under android/app/src/main/res, square of 48, 72, 96, 144 and 192
\* pixels whatever the shape of the source, and has changed no other file;
\* a run in which no step failed returns True.
C3_FiveSquareIcons ==
    /\ (prog = "resize_logo" /\ rl_pc = "done" /\ rl_ret = "True") =>
          /\ rl_written = DeclaredPrefix(5)
          /\ \A k \in 1..5 :
                /\ fs[DeclaredPath(k)].kind = "png"
                /\ fs[DeclaredPath(k)].intact
                /\ fs[DeclaredPath(k)].size = <<DeclaredSize(k), DeclaredSize(k)>>
                /\ fs[DeclaredPath(k)].mode = fs[logo_path].mode
                /\ fs[DeclaredPath(k)].px = fs[logo_path].px
          /\ \A p \in Paths : fs[p] # fs0[p] => \E k \in 1..5 : p = DeclaredPath(k)
    /\ (prog = "resize_logo" /\ rl_pc = "done" /\ Exists(fs0, logo_path) /\ rl_exc = "none") =>
          rl_ret = "True"

C3_Witness ==
    /\ prog = "resize_logo"
    /\ rl_pc = "done"
    /\ rl_ret = "True"
    /\ fs[logo_path].size = <<200, 100>>
    /\ fs[DeclaredPath(5)].size = <<192, 192>>
    /\ fs0[DeclaredPath(5)] = Absent

\* C4: with no logo.png at the check, resize_logo returns False and raises
\* nothing, and the files and directories are as they were: no directory is
\* made, no file written.
C4_MissingLogoIsNoOp ==
    (prog = "resize_logo" /\ ~Exists(fs0, logo_path) /\ rl_pc # "start") =>
        /\ rl_pc = "done"
        /\ rl_ret = "False"
        /\ rl_exc = "none"
        /\ rl_out = <<BannerMsg, LogoNotFoundMsg>>
        /\ rl_fp = "none"
        /\ rl_made = <<>>
        /\ rl_written = <<>>
        /\ fs = fs0
        /\ dirs = dirs0

C4_Witness ==
    /\ prog = "resize_logo"
    /\ ~Exists(fs0, logo_path)
    /\ rl_pc = "done"
    /\ rl_ret = "False"
    /\ dirs = {}

\* C6: when a step of resize_logo after the existence check fails (opening
\* or decoding, makedirs, resize or save, at target rl_i), the function does
\* not raise: it returns False after one failure line, the last line printed;
\* no later target is touched, and the icons written before the failure are
\* on disk as they were written.
C6_FailureCaughtNoRollback ==
    /\ rl_pc # "raised"
    /\ (prog = "resize_logo" /\ rl_exc # "none") =>
          /\ rl_pc = "done"
          /\ rl_ret = "False"
          /\ rl_out[Len(rl_out)] = ErrorMsg(rl_exc)
          /\ Cardinality({k \in 1..Len(rl_out) : rl_out[k][1] = "Error resizing logo"}) = 1
          /\ rl_written = DeclaredPrefix(IF rl_i = 0 THEN 0 ELSE rl_i - 1)
          /\ \A k \in 1..Len(rl_written) :
                fs[DeclaredPath(k)] =
                    [kind |-> "png", intact |-> TRUE, mode |-> fs[logo_path].mode,
                     size |-> <<DeclaredSize(k), DeclaredSize(k)>>, px |-> fs[logo_path].px]
          /\ \A k \in (rl_i + 1)..5 :
                /\ fs[DeclaredPath(k)] = fs0[DeclaredPath(k)]
                /\ SubSeq(DeclaredPath(k), 1, 6) \in dirs => SubSeq(DeclaredPath(k), 1, 6) \in dirs0

C6_Witness ==
    /\ prog = "resize_logo"
    /\ rl_pc = "done"
    /\ rl_exc = "OSError"
    /\ rl_i = 3
    /\ rl_written = DeclaredPrefix(2)
    /\ fs0[DeclaredPath(1)] = Absent
    /\ fs[DeclaredPath(1)].size = <<48, 48>>
    /\ fs[DeclaredPath(3)] = Junk

\* C8: a second successful run of the Logo-Resizer on the unchanged logo.png
\* leaves the files and directories exactly as the first left them, and the
\* directories the first run made never make a later run fail.
C8_RerunIdempotent ==
    /\ (prog = "resize_logo" /\ rl_pc = "done" /\ rl_ret = "True" /\ rl_prev.ret = "True") =>
          /\ fs = rl_prev.fs
          /\ dirs = rl_prev.dirs
    /\ rl_prev.ret = "True" => rl_exc # "FileExistsError"
    /\ \A k \in 1..Len(rl_made) : SubSeq(DeclaredPath(k), 1, 6) \in dirs

C8_Witness ==
    /\ prog = "resize_logo"
    /\ rl_run = 2
    /\ rl_pc = "done"
    /\ rl_ret = "True"
    /\ rl_prev.ret = "True"
    /\ Len(rl_made) = 5
    /\ fs = rl_prev.fs

\* the ordering half of C9: the icons written and the folders made by this
\* invocation are each a prefix of the declared list, a folder is made
\* before its icon is written, an icon is written before the next folder
\* is made, and logo.png is opened before the first folder is made
TargetsInOrder ==
    /\ rl_written = DeclaredPrefix(Len(rl_written))
    /\ rl_made = DeclaredPrefix(Len(rl_made))
    /\ Len(rl_made) \in {Len(rl_written), Len(rl_written) + 1}
    /\ \A k \in 1..Len(rl_written) : SubSeq(DeclaredPath(k), 1, 6) \in dirs
    /\ rl_made # <<>> => rl_img # NoImage

\* the errors with which the decoding of logo.png fails
DecodeErrors == {"UnidentifiedImageError", "OSError_truncated"}

\* C9: the Logo-Resizer handles the five targets one at a time in the
\* declared order, the folder of a target before its file and its file
\* before the next target; the source is decoded before the first target, so
\* a decoding failure leaves no directory made.
C9_OrderedAndDecodeFirst ==
    /\ TargetsInOrder
    /\ rl_exc \in DecodeErrors => (rl_made = <<>> /\ dirs = dirs0)

\* C9 as amended: the targets are handled in the declared order as above;
\* logo.png is opened and identified before the first target, so a file
\* Image.open cannot identify leaves no directory made, but its pixel data is
\* read by the first resize: data that is cut short fails there, after the
\* first target's folder was made and before any icon is written.
C9_OrderedAndOpenFirst ==
    /\ TargetsInOrder
    /\ rl_exc = "UnidentifiedImageError" => (rl_made = <<>> /\ dirs = dirs0)
    /\ rl_exc = "OSError_truncated" =>
          /\ rl_made = DeclaredPrefix(1)
          /\ rl_written = <<>>
          /\ SubSeq(DeclaredPath(1), 1, 6) \in dirs
          /\ \A p \in Paths : fs[p] = fs0[p]

C9_Witness ==
    /\ prog = "resize_logo"
    /\ rl_pc = "done"
    /\ rl_exc = "OSError_truncated"
    /\ rl_made = DeclaredPrefix(1)
    /\ SubSeq(DeclaredPath(1), 1, 6) \notin dirs0
    /\ SubSeq(DeclaredPath(1), 1, 6) \in dirs

====
